---- MODULE Spec2Model ----
(***************************************************************************)
(* Model of src/vs/editor/contrib/colorPicker/browser/                     *)
(* standaloneColorPickerWidget.ts: the StandaloneColorPickerController,    *)
(* the StandaloneColorPickerWidget it creates and the                      *)
(* StandaloneColorPickerComputer each widget starts.                       *)
(*                                                                         *)
(* JavaScript runs every handler to completion, so each action below is    *)
(* one whole handler, nested synchronous calls included (setSelection      *)
(* firing the cursor listener, the cursor listener calling hide, ...).     *)
(* Handlers are written as operators from a state record to a state        *)
(* record, in the order of the statements of the code; an action applies   *)
(* one of them to the current state.                                       *)
(***************************************************************************)
EXTENDS Integers, Naturals, Sequences, FiniteSets, TLC

VARIABLES
    hasModel,     \* editor.hasModel()
    selection,    \* editor.getSelection(): a range, or Null without a model
    visible,      \* context key standaloneColorPickerVisible
    focused,      \* context key standaloneColorPickerFocused
    widgetRef,    \* controller._standaloneColorPickerWidget (0 = null)
    widget,       \* the StandaloneColorPickerWidget instances, by id
    computer,     \* the StandaloneColorPickerComputer instances, by id
    attached,     \* ids of the widgets in the editor's content-widget layer
    nextId,       \* id the next constructed instance gets
    providers,    \* languageFeaturesService.colorProvider.ordered(textModel)
    lastOp,       \* the handler that ran last and the instance it ran on
    calls         \* the calls that handler made on its collaborators, in order

vars == <<hasModel, selection, visible, focused, widgetRef, widget, computer,
          attached, nextId, providers, lastOp, calls>>

\* ------------------------------------------------------------------ bounds
MaxInst  == 2    \* instances (widgets and computers) constructed in a run
MaxPos   == 2    \* document positions 1..MaxPos
MaxSpan  == 0    \* longest range: end - start <= MaxSpan
MaxColor == 1    \* distinct color values the participant can report
MaxCount == 2    \* cap of the per-instance event counters
MaxProviders == 3   \* color providers that can be registered

\* The DefaultDocumentColorProvider the controller's constructor registers.
DefaultProvider == 1

Ids       == 1..MaxInst
Positions == 1..MaxPos
Colors    == 1..MaxColor
ProviderIds == 1..MaxProviders

\* ------------------------------------------------------------------ values
Null == <<>>

\* A range <<start, end>> of the document; the cursor sits at its end.
Ranges == {r \in Positions \X Positions : r[1] <= r[2] /\ r[2] - r[1] <= MaxSpan}

\* { startLineNumber: 0, endLineNumber: 0, endColumn: 0, startColumn: 0 }
EmptyRange == <<0, 0>>

\* A ColorHover as far as this file reads it: its range and its color model.
ColorHovers == {<<r, c>> : r \in Ranges, c \in Colors}
RangeOf(hover) == hover[1]
ColorOf(hover) == hover[2]

\* What participant.createColorHover resolves to: null, or {colorHover, foundInMap}.
Answers == {Null} \cup {<<h, f>> : h \in ColorHovers, f \in BOOLEAN}

Call(op, w, arg) == [op |-> op, w |-> w, arg |-> arg]

NoWidget == [exists |-> FALSE, position |-> 0, selection |-> Null,
             colorHoverData |-> Null, selectionSetInEditor |-> FALSE,
             disposed |-> FALSE, renders |-> 0, picker |-> FALSE,
             enterButton |-> "none", closeButton |-> FALSE]

NoComputer == [st |-> "none", range |-> Null, lookups |-> 0, fired |-> 0,
               answer |-> Null, emitted |-> Null, modelAtStart |-> FALSE,
               provider |-> 0]

Inc(n) == IF n < MaxCount THEN n + 1 ELSE n

\* ------------------------------------------------------------------ state
St == [hasModel |-> hasModel, selection |-> selection, visible |-> visible,
       focused |-> focused, widgetRef |-> widgetRef, widget |-> widget,
       computer |-> computer, attached |-> attached, nextId |-> nextId,
       providers |-> providers, calls |-> <<>>]

Log(s, c) == [s EXCEPT !.calls = Append(@, c)]

Commit(s) ==
    /\ hasModel' = s.hasModel
    /\ selection' = s.selection
    /\ visible' = s.visible
    /\ focused' = s.focused
    /\ widgetRef' = s.widgetRef
    /\ widget' = s.widget
    /\ computer' = s.computer
    /\ attached' = s.attached
    /\ nextId' = s.nextId
    /\ providers' = s.providers
    /\ calls' = s.calls

\* The handler op ran, on instance w (0: on the controller or the editor).
Ran(op, w) == lastOp' = [op |-> op, w |-> w]

\* ----------------------------------------------------------------- editor
\* The editor is a collaborator of this file; these are the parts of its
\* contract the file relies on.

\* editor.focus()
EditorFocus(s) == Log(s, Call("editor.focus", 0, Null))

\* editor.addContentWidget(widget)
AddContentWidget(s, w) ==
    Log([s EXCEPT !.attached = @ \cup {w}], Call("addContentWidget", w, Null))

\* editor.removeContentWidget(widget): nothing to remove when it is not attached
RemoveContentWidget(s, w) ==
    Log([s EXCEPT !.attached = @ \ {w}], Call("removeContentWidget", w, Null))

\* editor.layoutContentWidget(widget)
LayoutContentWidget(s, w) == Log(s, Call("layoutContentWidget", w, Null))

\* ----------------------------------------------------------------- widget
\* The subscriptions of widget w are live from its construction until
\* _disposables.dispose() runs.
Subscribed(s, w) == s.widget[w].exists /\ ~s.widget[w].disposed

\* hide as it would be without line 219 (visible left set)
WidgetHideKeepsVisible(s, w) ==
    LET s1 == RemoveContentWidget(s, w)
        s2 == [s1 EXCEPT !.widget[w].disposed = TRUE]
        s3 == [s2 EXCEPT !.focused = FALSE]
    IN  EditorFocus(s3)

\* hide as it would be without line 220 (focused left set)
WidgetHideKeepsFocused(s, w) ==
    LET s1 == RemoveContentWidget(s, w)
        s2 == [s1 EXCEPT !.widget[w].disposed = TRUE]
        s3 == [s2 EXCEPT !.visible = FALSE]
    IN  EditorFocus(s3)

\* hide as it would be without line 218 (the subscriptions stay live)
WidgetHideNoDispose(s, w) ==
    LET s1 == RemoveContentWidget(s, w)
        s3 == [s1 EXCEPT !.visible = FALSE, !.focused = FALSE]
    IN  EditorFocus(s3)

\* hide as it would be without line 217 (the widget is not detached)
WidgetHideKeepsAttached(s, w) ==
    LET s2 == [s EXCEPT !.widget[w].disposed = TRUE]
        s3 == [s2 EXCEPT !.visible = FALSE, !.focused = FALSE]
    IN  EditorFocus(s3)

\* StandaloneColorPickerWidget.hide
WidgetHide(s, w) ==
    LET s1 == RemoveContentWidget(s, w)
        s2 == [s1 EXCEPT !.widget[w].disposed = TRUE]
        s3 == [s2 EXCEPT !.visible = FALSE, !.focused = FALSE]
    IN  EditorFocus(s3)

\* getPosition as it would be if it read the cursor instead of _position
GetPositionFollowsCursor(s, w, above) ==
    IF s.widget[w].position = 0 \/ s.selection = Null THEN Null
    ELSE <<s.selection[2], s.selection[2],
           IF above THEN <<"ABOVE", "BELOW">> ELSE <<"BELOW", "ABOVE">>, "None">>

\* StandaloneColorPickerWidget.getPosition: null, or <<position,
\* secondaryPosition, preference, positionAffinity>>; above is the editor's
\* hover.above option
GetPosition(s, w, above) ==
    IF s.widget[w].position = 0 THEN Null
    ELSE <<s.widget[w].position, s.widget[w].position,
           IF above THEN <<"ABOVE", "BELOW">> ELSE <<"BELOW", "ABOVE">>, "None">>

\* StandaloneColorPickerWidget.focus
WidgetFocus(s, w) == Log(s, Call("body.focus", w, Null))

\* the listener as it would be without the _selectionSetInEditor test
CursorListenerAlwaysHides(s, w) == WidgetHide(s, w)

\* The listener the constructor subscribes to editor.onDidChangeCursorPosition
CursorListener(s, w) ==
    IF ~s.widget[w].selectionSetInEditor
    THEN WidgetHide(s, w)
    ELSE [s EXCEPT !.widget[w].selectionSetInEditor = FALSE]

\* The editor fires onDidChangeCursorPosition: each listener subscribed when
\* the event fires is called, unless it was disposed in the meantime.
RECURSIVE DeliverCursor(_, _)
DeliverCursor(s, ws) ==
    IF ws = {} THEN s
    ELSE LET w == CHOOSE x \in ws : \A y \in ws : x <= y
         IN  DeliverCursor(IF Subscribed(s, w) THEN CursorListener(s, w) ELSE s,
                           ws \ {w})

FireCursorPosition(s) == DeliverCursor(s, {w \in Ids : Subscribed(s, w)})

\* The editor's cursor state becomes r: without a model nothing happens, and
\* the cursor event fires only when the state changed.
MoveCursorTo(s, r) ==
    IF ~s.hasModel \/ r = s.selection THEN s
    ELSE FireCursorPosition([s EXCEPT !.selection = r])

\* editor.setSelection(range)
SetSelection(s, r) == MoveCursorTo(Log(s, Call("setSelection", 0, r)), r)

\* participant.updateEditorModel([hover]) called by widget w: the participant
\* writes the color into the document; sel is the cursor state after the edit.
UpdateEditorModel(s, w, hover, sel) ==
    MoveCursorTo(Log(s, Call("updateEditorModel", w, hover)), sel)

\* updateEditor as it would be without the test of _colorHoverData
UpdateEditorUnguarded(s, w, sel) ==
    UpdateEditorModel(s, w, s.widget[w].colorHoverData, sel)

\* StandaloneColorPickerWidget.updateEditor
UpdateEditor(s, w, sel) ==
    IF s.widget[w].colorHoverData # Null
    THEN UpdateEditorModel(s, w, s.widget[w].colorHoverData, sel)
    ELSE s

\* _render as it would be if it selected the color's range before it tested
\* for the picker
RenderSelectsFirst(s, w, colorHoverData, foundInEditor, picker, enter) ==
    LET s1 == Log([s EXCEPT !.widget[w].colorHoverData = colorHoverData,
                            !.widget[w].renders = Inc(@)],
                  Call("renderHoverParts", w, colorHoverData))
        s2 == IF foundInEditor
              THEN SetSelection([s1 EXCEPT !.widget[w].selectionSetInEditor = TRUE],
                                RangeOf(colorHoverData))
              ELSE s1
        s3 == Log([s2 EXCEPT !.widget[w].picker = TRUE,
                             !.widget[w].enterButton =
                                 IF ~enter THEN "none"
                                 ELSE IF foundInEditor THEN "Replace" ELSE "Insert",
                             !.widget[w].closeButton = TRUE],
                  Call("colorPicker.layout", w, Null))
    IN  IF ~picker THEN s2 ELSE LayoutContentWidget(s3, w)

\* StandaloneColorPickerWidget._render. picker: the participant's
\* renderHoverParts called context.setColorPicker; enter: that picker has an
\* enter button.
Render(s, w, colorHoverData, foundInEditor, picker, enter) ==
    LET s1 == Log([s EXCEPT !.widget[w].colorHoverData = colorHoverData,
                            !.widget[w].renders = Inc(@)],
                  Call("renderHoverParts", w, colorHoverData))
        s2 == Log([s1 EXCEPT !.widget[w].picker = TRUE,
                             !.widget[w].enterButton = IF enter THEN "Insert" ELSE "none",
                             !.widget[w].closeButton = TRUE],
                  Call("colorPicker.layout", w, Null))
        s3 == [s2 EXCEPT !.widget[w].enterButton = IF enter THEN "Replace" ELSE @,
                         !.widget[w].selectionSetInEditor = TRUE]
        s4 == IF foundInEditor THEN SetSelection(s3, RangeOf(colorHoverData)) ELSE s2
    IN  IF ~picker THEN s1 ELSE LayoutContentWidget(s4, w)

Init ==
    /\ hasModel \in BOOLEAN
    /\ selection = IF hasModel THEN <<1, 1>> ELSE Null
    /\ visible = FALSE
    /\ focused = FALSE
    /\ widgetRef = 0
    /\ widget = [i \in Ids |-> NoWidget]
    /\ computer = [i \in Ids |-> NoComputer]
    /\ attached = {}
    /\ nextId = 1
    /\ providers = <<DefaultProvider>>
    /\ lastOp = [op |-> "init", w |-> 0]
    /\ calls = <<>>

\* --------------------------------------------------------------- computer
\* Array.prototype.reverse
Reverse(list) == [i \in 1..Len(list) |-> list[Len(list) + 1 - i]]

\* the pick as it would be without reverse()
PickProviderUnreversed(ordered) ==
    IF ordered = <<>> THEN 0 ELSE ordered[1]

\* ordered(textModel).reverse() and providers[0] (0: undefined, the list is empty)
PickProvider(ordered) ==
    LET reversed == Reverse(ordered)
    IN  IF reversed = <<>> THEN 0 ELSE reversed[1]

\* StandaloneColorPickerComputer.computeAsync up to its await: without a
\* model it returns null, otherwise it asks the participant once, with the
\* provider it picked.
ComputeAsync(s, c) ==
    IF ~s.hasModel
    THEN [s EXCEPT !.computer[c].st = "done"]
    ELSE Log([s EXCEPT !.computer[c].st = "pending",
                       !.computer[c].lookups = Inc(@),
                       !.computer[c].provider = PickProvider(s.providers)],
             Call("createColorHover", c, s.computer[c].range))

\* new StandaloneColorPickerComputer(range, ...) followed by start()
StartComputer(s, c, range) ==
    ComputeAsync([s EXCEPT !.computer[c] =
                      [NoComputer EXCEPT !.st = "constructed", !.range = range,
                                         !.modelAtStart = s.hasModel]], c)

\* computeAsync after its await: { result: colorHover, foundInEditor: foundInMap }
ComputeAsyncResult(answer) == <<answer[1], answer[2]>>

\* new StandaloneColorPickerResult(result, foundInEditor), read back by the
\* widget's listener as (result.value, result.foundInMap)
ResultOf(computeAsyncResult) == <<computeAsyncResult[1], computeAsyncResult[2]>>

\* the event as it would be delivered were the subscription not in _disposables
FireResultAfterDispose(s, c, result, picker, enter) ==
    LET s1 == Log([s EXCEPT !.computer[c].fired = Inc(@),
                            !.computer[c].emitted = result],
                  Call("onResult.fire", c, result))
    IN  IF s1.widget[c].exists
        THEN Render(s1, c, result[1], result[2], picker, enter)
        ELSE s1

\* _onResult.fire(result): the widget's listener runs if still subscribed
FireResult(s, c, result, picker, enter) ==
    LET s1 == Log([s EXCEPT !.computer[c].fired = Inc(@),
                            !.computer[c].emitted = result],
                  Call("onResult.fire", c, result))
    IN  IF Subscribed(s1, c)
        THEN Render(s1, c, result[1], result[2], picker, enter)
        ELSE s1

\* start() as it would be if the lookup could resolve again
StartResumeStaysPending(s, c, answer, picker, enter) ==
    LET s1 == [s EXCEPT !.computer[c].answer = answer]
    IN  IF answer = Null THEN s1
        ELSE FireResult(s1, c, ResultOf(ComputeAsyncResult(answer)), picker, enter)

\* start() as it would be without the fire of line 261
StartResumeDropsResult(s, c, answer, picker, enter) ==
    [s EXCEPT !.computer[c].st = "done", !.computer[c].answer = answer]

\* start() after the lookup resolved with answer
StartResume(s, c, answer, picker, enter) ==
    LET s1 == [s EXCEPT !.computer[c].st = "done", !.computer[c].answer = answer]
    IN  IF answer = Null THEN s1
        ELSE FireResult(s1, c, ResultOf(ComputeAsyncResult(answer)), picker, enter)

\* ----------------------------------------- widget construction, controller
\* new StandaloneColorPickerWidget(editor, visible, focused, ...)
NewWidget(s, w) ==
    LET position == IF s.hasModel THEN s.selection[2] ELSE 0
        range    == IF s.selection # Null THEN s.selection ELSE EmptyRange
        s1 == [s EXCEPT !.widget[w] = [NoWidget EXCEPT !.exists = TRUE,
                                                       !.position = position,
                                                       !.selection = s.selection],
                        !.nextId = @ + 1]
    IN  StartComputer(s1, w, range)

\* showOrFocus as it would be without the hasModel test
ShowOrFocusNoModelCheck(s) ==
    IF ~s.visible
    THEN LET w == s.nextId
         IN  AddContentWidget(
                 [NewWidget([s EXCEPT !.visible = TRUE], w) EXCEPT !.widgetRef = w], w)
    ELSE IF ~s.focused
    THEN LET s1 == [s EXCEPT !.focused = TRUE]
         IN  IF s.widgetRef # 0 THEN WidgetFocus(s1, s.widgetRef) ELSE s1
    ELSE s

\* showOrFocus as it would be if it replaced a visible widget
ShowOrFocusAlwaysCreates(s) ==
    IF ~s.hasModel THEN s
    ELSE IF ~s.focused
    THEN LET w == s.nextId
         IN  AddContentWidget(
                 [NewWidget([s EXCEPT !.visible = TRUE, !.focused = s.visible], w)
                      EXCEPT !.widgetRef = w], w)
    ELSE s

\* showOrFocus as it would be without the focus() call of line 61
ShowOrFocusSkipsFocus(s) ==
    IF ~s.hasModel THEN s
    ELSE IF ~s.visible
    THEN LET w == s.nextId
         IN  AddContentWidget(
                 [NewWidget([s EXCEPT !.visible = TRUE], w) EXCEPT !.widgetRef = w], w)
    ELSE IF ~s.focused
    THEN [s EXCEPT !.focused = TRUE]
    ELSE s

\* showOrFocus as it would be if it showed the widget it already has again
ShowOrFocusReusesWidget(s) ==
    IF ~s.hasModel THEN s
    ELSE IF ~s.visible
    THEN LET w == s.nextId
         IN  IF s.widgetRef # 0
             THEN AddContentWidget([s EXCEPT !.visible = TRUE], s.widgetRef)
             ELSE AddContentWidget(
                      [NewWidget([s EXCEPT !.visible = TRUE], w) EXCEPT !.widgetRef = w], w)
    ELSE IF ~s.focused
    THEN LET s1 == [s EXCEPT !.focused = TRUE]
         IN  IF s.widgetRef # 0 THEN WidgetFocus(s1, s.widgetRef) ELSE s1
    ELSE s

\* StandaloneColorPickerController.showOrFocus
ShowOrFocus(s) ==
    IF ~s.hasModel THEN s
    ELSE IF ~s.visible
    THEN LET w == s.nextId
         IN  AddContentWidget(
                 [NewWidget([s EXCEPT !.visible = TRUE], w) EXCEPT !.widgetRef = w], w)
    ELSE IF ~s.focused
    THEN LET s1 == [s EXCEPT !.focused = TRUE]
         IN  IF s.widgetRef # 0 THEN WidgetFocus(s1, s.widgetRef) ELSE s1
    ELSE s

\* hide as it would be without line 68 (the widget is not asked to hide)
ControllerHideKeepsWidget(s) ==
    EditorFocus([s EXCEPT !.focused = FALSE, !.visible = FALSE])

\* StandaloneColorPickerController.hide
ControllerHide(s) ==
    LET s1 == [s EXCEPT !.focused = FALSE, !.visible = FALSE]
        s2 == IF s.widgetRef # 0 THEN WidgetHide(s1, s.widgetRef) ELSE s1
    IN  EditorFocus(s2)

\* insertColor as it would be with its two lines swapped (hide, then commit)
InsertColorHidesFirst(s, sel) ==
    LET s1 == ControllerHide(s)
    IN  IF s.widgetRef # 0 THEN UpdateEditor(s1, s.widgetRef, sel) ELSE s1

\* StandaloneColorPickerController.insertColor
InsertColor(s, sel) ==
    ControllerHide(IF s.widgetRef # 0 THEN UpdateEditor(s, s.widgetRef, sel) ELSE s)

\* ---------------------------------------------------------------- actions
\* command: show or focus the standalone color picker
DoShowOrFocus ==
    /\ ~hasModel \/ visible \/ nextId <= MaxInst
    /\ Commit(ShowOrFocus(St))
    /\ Ran("showOrFocus", 0)

\* command: hide the standalone color picker
DoHide ==
    /\ Commit(ControllerHide(St))
    /\ Ran("hide", 0)

\* command: insert the color; sel is the cursor state the edit leaves
DoInsertColor ==
    /\ \E sel \in Ranges : Commit(InsertColor(St, sel))
    /\ Ran("insertColor", 0)

\* the editor gets or loses its document; content widgets stay registered
\* and a new document starts with the cursor at its first position
SetModel ==
    /\ Commit([St EXCEPT !.hasModel = ~hasModel,
                         !.selection = IF hasModel THEN Null ELSE <<1, 1>>])
    /\ Ran("setModel", 0)

\* the user moves the cursor or changes the selection
CursorMove ==
    /\ hasModel
    /\ \E r \in Ranges \ {selection} : Commit(MoveCursorTo(St, r))
    /\ Ran("cursorMove", 0)

\* focusTracker.onDidBlur of widget w. The listener can run whenever it is
\* subscribed; which DOM node holds the input focus is not modelled.
Blur ==
    \E w \in Ids : /\ Subscribed(St, w)
                   /\ Commit(WidgetHide(St, w))
                   /\ Ran("blur", w)

\* focusTracker.onDidFocus of widget w
Focus ==
    \E w \in Ids : /\ Subscribed(St, w)
                   /\ Commit(WidgetFocus(St, w))
                   /\ Ran("focus", w)

\* the lookup of computer c resolves
Resolve ==
    \E c \in Ids, answer \in Answers, picker \in BOOLEAN, enter \in BOOLEAN :
        /\ computer[c].st = "pending"
        /\ Commit(StartResume(St, c, answer, picker, enter))
        /\ Ran("resolve", c)

\* the picker's enter button is clicked
ClickEnter ==
    \E w \in attached, sel \in Ranges :
        /\ widget[w].enterButton # "none"
        /\ Commit(WidgetHide(UpdateEditor(St, w, sel), w))
        /\ Ran("clickEnter", w)

\* the picker's close button is clicked
ClickClose ==
    \E w \in attached :
        /\ widget[w].closeButton
        /\ Commit(WidgetHide(St, w))
        /\ Ran("clickClose", w)

\* a computer constructed and started on its own, as the exported class allows
NewComputer ==
    /\ nextId <= MaxInst
    /\ Commit(StartComputer([St EXCEPT !.nextId = @ + 1], nextId,
                            IF selection # Null THEN selection ELSE EmptyRange))
    /\ Ran("newComputer", nextId)

Next ==
    \/ DoShowOrFocus
    \/ DoHide
    \/ DoInsertColor
    \/ SetModel
    \/ CursorMove
    \/ Blur
    \/ Focus
    \/ Resolve
    \/ ClickEnter
    \/ ClickClose
    \/ NewComputer

Spec == Init /\ [][Next]_vars

\* Weak fairness of the step that resolves the lookup of computer c, the
\* promise awaited at line 257 being settled. That step is enabled exactly while
\* computer[c].st = "pending" and a computer resolves at most once, so
\* WF_vars of the step says what is written here: c is not pending forever.
LookupFair(c) == []<>(computer[c].st # "pending")

\* The program with every lookup settled in the end.
SpecFair == Spec /\ \A c \in Ids : LookupFair(c)

\* ------------------------------------------- the classes used on their own
\* colorProvider.register(selector, provider): the ordered list grows by the
\* provider registered last
RegisterProvider ==
    /\ Len(providers) < MaxProviders
    /\ \E p \in ProviderIds \ {providers[i] : i \in 1..Len(providers)} :
           Commit([St EXCEPT !.providers = Append(@, p)])
    /\ Ran("register", 0)

\* a widget constructed on its own, as the exported class allows: it is not
\* attached and the controller does not know it
NewWidgetDirect ==
    /\ nextId <= MaxInst
    /\ Commit(NewWidget(St, nextId))
    /\ Ran("newWidget", nextId)

NextUnits ==
    \/ RegisterProvider
    \/ NewComputer
    \/ NewWidgetDirect
    \/ SetModel
    \/ CursorMove

\* The computer and the widget constructed directly, with any registered
\* providers and with or without a document, up to the start of the lookup.
SpecUnits == Init /\ [][NextUnits]_vars

\* ----------------------------------------------------------------- claims
\* The state of the program, without the record of the last handler.
prog == <<hasModel, selection, visible, focused, widgetRef, widget, computer,
          attached, nextId, providers>>

\* The calls of kind op in a call record cs.
Sel(cs, op) == SelectSeq(cs, LAMBDA c : c.op = op)

\* Widget w is live: attached to the editor and not yet hidden.
Live(w) == w \in attached /\ widget[w].exists /\ ~widget[w].disposed

\* C1: on an editor with a document, showOrFocus() from visible=false,
\* focused=false sets visible, constructs exactly one widget, keeps it as the
\* controller's widget and attaches it; from visible=true, focused=false it
\* sets focused and calls focus() on the controller's live widget and creates
\* and attaches nothing; with both flags true it changes nothing.
C1_ShowOrFocusTwice ==
    [][(lastOp'.op = "showOrFocus" /\ hasModel) =>
          /\ (~visible /\ ~focused) =>
                /\ visible' /\ ~focused'
                /\ nextId' = nextId + 1
                /\ ~widget[nextId].exists /\ widget'[nextId].exists
                /\ \A w \in Ids \ {nextId} : widget'[w] = widget[w]
                /\ widgetRef' = nextId
                /\ attached' = attached \cup {nextId}
                /\ Sel(calls', "addContentWidget") = <<Call("addContentWidget", nextId, Null)>>
                /\ Sel(calls', "body.focus") = <<>>
          /\ (visible /\ ~focused) =>
                /\ visible' /\ focused'
                /\ Live(widgetRef)
                /\ calls' = <<Call("body.focus", widgetRef, Null)>>
                /\ UNCHANGED <<hasModel, selection, widgetRef, widget, computer, attached, nextId>>
          /\ (visible /\ focused) => (UNCHANGED prog /\ calls' = <<>>)
      ]_vars

\* C1 witness: the second of two showOrFocus() calls focused the one widget
\* the first call created.
C1_Witness ==
    /\ lastOp.op = "showOrFocus"
    /\ visible /\ focused
    /\ nextId = 2 /\ widgetRef = 1 /\ attached = {1}
    /\ calls = <<Call("body.focus", 1, Null)>>

\* C2: without a loaded document showOrFocus() changes nothing: visible stays
\* false, focused is unchanged, no widget is constructed or attached and no
\* lookup is started.
C2_ShowOrFocusNoModel ==
    [][(lastOp'.op = "showOrFocus" /\ ~hasModel) =>
          /\ UNCHANGED prog
          /\ calls' = <<>>
          /\ ~visible => ~visible'
      ]_vars

\* C2 witness: showOrFocus() ran on an editor without a document.
C2_Witness ==
    /\ lastOp.op = "showOrFocus"
    /\ ~hasModel /\ ~visible /\ ~focused
    /\ nextId = 1 /\ attached = {} /\ calls = <<>>

\* C3: after controller hide(), from whatever state, visible and focused are
\* false and no widget is attached to the editor.
C3_HideClearsAll ==
    lastOp.op = "hide" => (~visible /\ ~focused /\ attached = {})

\* C3 witness: hide() ran although the controller never created a widget.
C3_Witness ==
    /\ lastOp.op = "hide"
    /\ widgetRef = 0 /\ \A w \in Ids : ~widget[w].exists
    /\ calls = <<Call("editor.focus", 0, Null)>>

\* C4: at most one widget is live at a time.
C4_AtMostOneLive == Cardinality({w \in Ids : Live(w)}) <= 1

\* C4 witness: a widget is live after an earlier one was hidden.
C4_Witness ==
    \E w1 \in Ids, w2 \in Ids :
        /\ w1 # w2
        /\ widget[w1].exists /\ widget[w1].disposed
        /\ Live(w2)

\* C5: visible=true implies that the controller's widget exists, is attached
\* to the editor and has not been hidden.
C5_VisibleImpliesLive == visible => (widgetRef # 0 /\ Live(widgetRef))

\* C5 witness: the picker is visible with its widget rendered.
C5_Witness == visible /\ widgetRef # 0 /\ widget[widgetRef].renders = 1

\* C6: focused=true implies visible=true.
C6_FocusedImpliesVisible == focused => visible

\* C6 witness: the picker is focused and its widget shows a picker.
C6_Witness == focused /\ visible /\ widgetRef # 0 /\ widget[widgetRef].picker

\* C7: a computer started without a document, or whose participant answers
\* nothing, emits no result; otherwise it made exactly one lookup and emitted
\* exactly one result, the participant's {colorHover, foundInMap}; no
\* computer emits twice and no widget is rendered more often than its
\* computer emitted.
C7_SingleShot ==
    \A c \in Ids :
        LET k == computer[c] IN
        /\ k.fired <= 1 /\ k.lookups <= 1
        /\ widget[c].renders <= k.fired
        /\ k.st = "pending" => (k.fired = 0 /\ k.lookups = 1)
        /\ (k.st = "done" /\ ~k.modelAtStart) => (k.fired = 0 /\ k.lookups = 0)
        /\ (k.st = "done" /\ k.modelAtStart /\ k.answer = Null) =>
               (k.fired = 0 /\ k.lookups = 1)
        /\ (k.st = "done" /\ k.answer # Null) =>
               (k.fired = 1 /\ k.lookups = 1 /\ k.emitted = k.answer)

\* C7 witness: one computer ended silently without a document, another
\* emitted its one result and its widget rendered it.
C7_Witness ==
    \E c1 \in Ids, c2 \in Ids :
        /\ computer[c1].st = "done" /\ ~computer[c1].modelAtStart
        /\ computer[c2].st = "done" /\ computer[c2].fired = 1
        /\ computer[c2].emitted = computer[c2].answer
        /\ widget[c2].renders = 1

\* C8: when the lookup of a widget that was hidden before resolves, nothing
\* but the computer's own record changes: _render does not run, the
\* selection, the flags, the widgets and the attached set are unchanged and
\* the only call made is the event being fired.
C8_LateResultInert ==
    [][(lastOp'.op = "resolve" /\ widget[lastOp'.w].exists /\ widget[lastOp'.w].disposed) =>
          /\ UNCHANGED <<hasModel, selection, visible, focused, widgetRef, widget,
                         attached, nextId>>
          /\ \A i \in 1..Len(calls') : calls'[i].op = "onResult.fire"
      ]_vars

\* C8 witness: a result was emitted for a widget hidden before, and the
\* widget never rendered.
C8_Witness ==
    /\ lastOp.op = "resolve"
    /\ widget[lastOp.w].exists /\ widget[lastOp.w].disposed
    /\ computer[lastOp.w].fired = 1
    /\ widget[lastOp.w].renders = 0 /\ widget[lastOp.w].colorHoverData = Null

\* A resolve step rendered a picker for a color found in the document.
RenderedFound ==
    /\ lastOp.op = "resolve"
    /\ Sel(calls, "colorPicker.layout") # <<>>
    /\ computer[lastOp.w].emitted # Null
    /\ computer[lastOp.w].emitted[2]

\* C9: after a render with foundInMap=true the enter button, if the picker
\* has one, reads "Replace"; setSelection was called once, with the reported
\* range, and with a document loaded that range is the editor's selection;
\* the widget is still live and visible is still true.
C9_FoundInMapRender ==
    RenderedFound =>
        LET w == lastOp.w
            range == RangeOf(computer[w].emitted[1])
        IN  /\ widget[w].enterButton \in {"Replace", "none"}
            /\ Sel(calls, "setSelection") = <<Call("setSelection", 0, range)>>
            /\ hasModel => selection = range
            /\ Live(w) /\ visible /\ widgetRef = w
            /\ calls[Len(calls)] = Call("layoutContentWidget", w, Null)

\* C9 witness: the render relabelled the button and moved the selection, and
\* the cursor listener consumed the self-selection mark.
C9_Witness ==
    /\ RenderedFound
    /\ widget[lastOp.w].enterButton = "Replace"
    /\ selection = RangeOf(computer[lastOp.w].emitted[1])
    /\ selection # widget[lastOp.w].selection
    /\ ~widget[lastOp.w].selectionSetInEditor
    /\ Live(lastOp.w) /\ visible

\* The widget the last handler called updateEditor() on (0: none).
UpdatedWidget ==
    IF lastOp.op = "insertColor" THEN widgetRef
    ELSE IF lastOp.op = "clickEnter" THEN lastOp.w
    ELSE 0

\* C10: updateEditor() on a widget without a result changes nothing and
\* calls no participant write; on a widget with a result it calls the
\* participant's write exactly once, with the ColorHover the result carried.
C10_UpdateEditor ==
    /\ \A w \in Ids, sel \in Ranges :
           (widget[w].exists /\ widget[w].colorHoverData = Null) =>
               UpdateEditor(St, w, sel) = St
    /\ \A w \in Ids, sel \in Ranges :
           (widget[w].exists /\ widget[w].colorHoverData # Null) =>
               /\ Sel(UpdateEditor(St, w, sel).calls, "updateEditorModel")
                      = <<Call("updateEditorModel", w, computer[w].emitted[1])>>
    /\ lastOp.op \in {"insertColor", "clickEnter"} =>
           Sel(calls, "updateEditorModel") =
               IF UpdatedWidget # 0 /\ widget[UpdatedWidget].colorHoverData # Null
               THEN <<Call("updateEditorModel", UpdatedWidget,
                           computer[UpdatedWidget].emitted[1])>>
               ELSE <<>>

\* C10 witness: insertColor() called updateEditor() on a widget that had no
\* result yet, and no write was made.
C10_Witness ==
    /\ lastOp.op = "insertColor"
    /\ widgetRef # 0 /\ widget[widgetRef].colorHoverData = Null
    /\ computer[widgetRef].st = "pending"
    /\ Sel(calls, "updateEditorModel") = <<>>

\* C11: a computer that starts its lookup with a non-empty ordered provider
\* list asks the participant once, with the last element of that list, the
\* provider registered last, and the provider of a lookup never changes.
C11_LastProviderQueried ==
    [][\A c \in Ids :
          /\ (computer[c].st = "none" /\ computer'[c].st = "pending" /\ providers # <<>>) =>
                /\ computer'[c].provider = providers[Len(providers)]
                /\ computer'[c].lookups = 1
          /\ computer[c].st = "pending" =>
                /\ computer'[c].provider = computer[c].provider
                /\ computer'[c].lookups = computer[c].lookups
      ]_vars

\* C11 witness: with providers A, B, C registered in that order a lookup was
\* started, and it asks C.
C11_Witness ==
    /\ providers = <<1, 2, 3>>
    /\ lastOp.op \in {"newComputer", "newWidget"}
    /\ computer[lastOp.w].st = "pending"
    /\ computer[lastOp.w].lookups = 1
    /\ computer[lastOp.w].provider = 3

\* C12: getPosition() of a widget is null exactly when the widget was
\* constructed without a cursor position (without a document); otherwise it
\* is the cursor position at construction, as position and as
\* secondaryPosition; and no later step changes what it returns.
C12_PositionCaptured ==
    [][\A w \in Ids, above \in BOOLEAN :
          /\ (~widget[w].exists /\ widget'[w].exists) =>
                /\ (GetPosition(St, w, above)' = Null) <=> ~hasModel
                /\ hasModel =>
                      /\ GetPosition(St, w, above)'[1] = selection[2]
                      /\ GetPosition(St, w, above)'[2] = selection[2]
          /\ widget[w].exists =>
                GetPosition(St, w, above)' = GetPosition(St, w, above)
      ]_vars

\* C12 witness: one widget constructed without a document answers null;
\* another answers the position it captured although the cursor has moved.
C12_Witness ==
    \E w1 \in Ids, w2 \in Ids :
        /\ widget[w1].exists /\ widget[w1].position = 0
        /\ GetPosition(St, w1, TRUE) = Null
        /\ widget[w2].exists /\ widget[w2].position # 0
        /\ hasModel /\ selection[2] # widget[w2].position
        /\ GetPosition(St, w2, TRUE)[1] = widget[w2].position
        /\ GetPosition(St, w2, TRUE)[2] = widget[w2].position

\* C13: every cursor move of the user made while a widget is live hides that
\* widget: it is detached and visible and focused are cleared. (The cursor
\* change of the widget's own setSelection happens inside the render.)
C13_UserCursorMoveHides ==
    [][\A w \in Ids :
          (lastOp'.op = "cursorMove" /\ Live(w)) =>
              (w \notin attached' /\ widget'[w].disposed /\ ~visible' /\ ~focused')
      ]_vars

\* C14: hidden is terminal for a widget instance: in no step taken after
\* instance w was hidden does w call the participant's write, get rendered or
\* get attached to the editor again.
C14_HiddenIsTerminal ==
    [][\A w \in Ids :
          widget[w].disposed =>
              /\ \A i \in 1..Len(calls') :
                     ~(calls'[i].op = "updateEditorModel" /\ calls'[i].w = w)
              /\ widget'[w].renders = widget[w].renders
              /\ w \notin attached'
      ]_vars

\* Widget w was hidden: it was constructed and is not attached (the
\* controller attaches each widget in the step that constructs it).
Hidden(w) == widget[w].exists /\ w \notin attached

\* How many times hide() ran on widget w in a call record cs.
Hides(cs, w) ==
    Len(SelectSeq(cs, LAMBDA c : c.op = "removeContentWidget" /\ c.w = w))

\* The widgets whose subscriptions are live.
SubscribedSet == {w \in Ids : Subscribed(St, w)}

\* C15: hiding is idempotent. A second hide() on any widget gives the flags,
\* the attached widgets and the live subscriptions of the first; a handler
\* that hides an already hidden widget leaves all three as they were; a
\* handler that hides a widget twice ends as one hide would; and after its
\* first hide no callback of the widget runs (no blur or focus handler, no
\* render, no change of the widget's own state).
C15_HideIdempotent ==
    /\ [](\A w \in Ids :
            widget[w].exists =>
                LET h1 == WidgetHide(St, w)
                    h2 == WidgetHide(h1, w)
                IN  /\ h2.visible = h1.visible
                    /\ h2.focused = h1.focused
                    /\ h2.attached = h1.attached
                    /\ {x \in Ids : Subscribed(h2, x)} = {x \in Ids : Subscribed(h1, x)})
    /\ [][\A w \in Ids :
            /\ (Hidden(w) /\ Hides(calls', w) > 0) =>
                   /\ visible' = visible
                   /\ focused' = focused
                   /\ attached' = attached
                   /\ SubscribedSet' = SubscribedSet
            /\ (Live(w) /\ Hides(calls', w) > 1) =>
                   /\ ~visible'
                   /\ ~focused'
                   /\ attached' = attached \ {w}
                   /\ SubscribedSet' = SubscribedSet \ {w}
            /\ Hidden(w) =>
                   /\ widget'[w] = widget[w]
                   /\ lastOp'.op \in {"blur", "focus"} => lastOp'.w # w
                   /\ \A i \in 1..Len(calls') :
                          calls'[i].w = w =>
                              calls'[i].op \notin {"renderHoverParts", "body.focus",
                                                   "setSelection", "layoutContentWidget"}
         ]_vars

\* The enter button's updateEditor() moved the cursor, the cursor listener hid
\* the widget, and the handler's own hide() ran on the hidden widget.
C15_Witness ==
    /\ lastOp.op = "clickEnter"
    /\ Hides(calls, lastOp.w) = 2
    /\ Hidden(lastOp.w)
    /\ ~visible
    /\ ~focused

\* C16: insertColor() commits before it hides. When the controller's widget
\* is live and has a result, the handler's first call is the participant's
\* write, made while the widget is attached, it is the only write, and every
\* detach comes after it; every insertColor() ends with both flags false and
\* nothing attached; with no widget or no result there is no write and the
\* document's cursor stays where it was.
C16_InsertColorCommitsThenHides ==
    [][lastOp'.op = "insertColor" =>
          /\ ~visible' /\ ~focused' /\ attached' = {}
          /\ (widgetRef # 0 /\ Live(widgetRef) /\ widget[widgetRef].colorHoverData # Null) =>
                 /\ Len(Sel(calls', "updateEditorModel")) = 1
                 /\ calls'[1] = Call("updateEditorModel", widgetRef,
                                     widget[widgetRef].colorHoverData)
                 /\ Hides(calls', widgetRef) >= 1
                 /\ \A i \in 1..Len(calls') :
                        calls'[i].op = "removeContentWidget" => i > 1
          /\ (widgetRef = 0 \/ widget[IF widgetRef = 0 THEN 1 ELSE widgetRef].colorHoverData = Null) =>
                 /\ Sel(calls', "updateEditorModel") = <<>>
                 /\ selection' = selection
      ]_vars

\* insertColor() wrote the color of a live widget, the write moved the cursor
\* and hid the widget through its cursor listener, and the controller's hide
\* followed.
C16_Witness ==
    /\ lastOp.op = "insertColor"
    /\ widgetRef # 0
    /\ calls # <<>> /\ calls[1].op = "updateEditorModel" /\ calls[1].w = widgetRef
    /\ Hides(calls, widgetRef) = 2
    /\ ~visible /\ ~focused /\ attached = {}

\* State t is state s after showOrFocus() built a fresh widget: the
\* controller holds a new instance, only that instance is attached, it is
\* subscribed, it started one lookup of its own, the instance the controller
\* held before is as it was, and nothing was focused.
FreshWidget(s, t) ==
    LET w == s.nextId
    IN  /\ t.widgetRef = w /\ w # s.widgetRef
        /\ ~s.widget[w].exists /\ t.widget[w].exists /\ ~t.widget[w].disposed
        /\ t.attached = {w}
        /\ t.computer[w].st = "pending" /\ t.computer[w].lookups = 1
        /\ Sel(t.calls, "createColorHover")
               = <<Call("createColorHover", w, t.computer[w].range)>>
        /\ Sel(t.calls, "body.focus") = <<>>
        /\ t.visible /\ ~t.focused
        /\ s.widgetRef # 0 => t.widget[s.widgetRef] = s.widget[s.widgetRef]

\* C17: when the controller's widget has hidden itself on a blur or a cursor
\* move, both flags are false and showOrFocus() called then, on an editor
\* with a document, builds a fresh widget; and whenever showOrFocus() runs
\* with a document while the controller's widget is a hidden one, the step
\* builds a fresh widget instead of focusing or showing the hidden one.
C17_FreshWidgetAfterSelfHide ==
    /\ []((lastOp.op \in {"blur", "cursorMove"} /\ widgetRef # 0 /\ Hidden(widgetRef)) =>
             /\ ~visible /\ ~focused
             /\ (hasModel /\ nextId \in Ids) => FreshWidget(St, ShowOrFocus(St)))
    /\ [][(lastOp'.op = "showOrFocus" /\ hasModel /\ widgetRef # 0 /\ Hidden(widgetRef)) =>
             FreshWidget(St, [St' EXCEPT !.calls = calls'])
         ]_vars

\* The controller's widget has just hidden itself on a cursor move, and
\* showOrFocus() from here builds the second instance.
C17_Witness ==
    /\ lastOp.op = "cursorMove"
    /\ widgetRef = 1 /\ Hidden(1) /\ Hides(calls, 1) = 1
    /\ hasModel /\ ~visible /\ ~focused /\ nextId = 2
    /\ ShowOrFocus(St).widgetRef = 2
    /\ ShowOrFocus(St).attached = {2}

\* The calls widget w made, or the editor received for w, of kind op in cs.
CallsOf(cs, w, op) == SelectSeq(cs, LAMBDA c : c.op = op /\ c.w = w)

\* C18: a result delivered to a subscribed widget for which the participant
\* sets no picker (renderHoverParts ran, no picker was laid out) leaves the
\* editor and the flags alone: the selection, visible, focused and the
\* attached widgets are unchanged, the self-selection mark is not set, no
\* setSelection and no layoutContentWidget is called, and the widget stays
\* attached and subscribed with no picker and no buttons. foundInMap makes no
\* difference.
C18_NoPickerAborts ==
    [][\A w \in Ids :
          (/\ lastOp'.op = "resolve" /\ lastOp'.w = w
           /\ CallsOf(calls', w, "renderHoverParts") # <<>>
           /\ CallsOf(calls', w, "colorPicker.layout") = <<>>) =>
              /\ UNCHANGED <<hasModel, selection, visible, focused, attached, widgetRef>>
              /\ widget'[w].selectionSetInEditor = widget[w].selectionSetInEditor
              /\ ~widget'[w].selectionSetInEditor
              /\ Sel(calls', "setSelection") = <<>>
              /\ Sel(calls', "layoutContentWidget") = <<>>
              /\ Sel(calls', "removeContentWidget") = <<>>
              /\ ~widget'[w].picker
              /\ widget'[w].enterButton = "none" /\ ~widget'[w].closeButton
              /\ w \in attached' /\ ~widget'[w].disposed
              /\ \A x \in Ids \ {w} : widget'[x] = widget[x]
      ]_vars

\* A result with foundInMap = true, for a range other than the selection, was
\* rendered without a picker: the widget is attached, empty and visible, and
\* the selection is still the one it was constructed with.
C18_Witness ==
    /\ lastOp.op = "resolve"
    /\ computer[lastOp.w].emitted # Null
    /\ computer[lastOp.w].emitted[2]
    /\ RangeOf(computer[lastOp.w].emitted[1]) # selection
    /\ widget[lastOp.w].renders = 1
    /\ ~widget[lastOp.w].picker
    /\ ~widget[lastOp.w].selectionSetInEditor
    /\ selection = widget[lastOp.w].selection
    /\ Live(lastOp.w) /\ visible

\* The lookup of widget w is unresolved and w has not been hidden.
Waiting(w) == computer[w].st = "pending" /\ Live(w)

\* C19: while its lookup is unresolved a widget that has not been hidden is
\* in the Constructed state (never rendered, no picker) with visible = true,
\* and stays so for as long as the lookup stays unresolved; a color-hover
\* answer for which the participant sets a picker then renders it (one picker
\* layout, one layoutContentWidget); and under fairness of the lookup such a
\* widget does not wait forever: it gets its picker, or it was hidden, or the
\* lookup ended with no color hover or with no picker.
C19_EventuallyRendered ==
    /\ [](\A w \in Ids :
            Waiting(w) =>
                /\ visible
                /\ widget[w].renders = 0 /\ ~widget[w].picker
                /\ \A answer \in Answers \ {Null}, enter \in BOOLEAN :
                       LET t == StartResume(St, w, answer, TRUE, enter)
                       IN  /\ t.computer[w].st = "done"
                           /\ t.widget[w].picker /\ t.widget[w].renders = 1
                           /\ Len(CallsOf(t.calls, w, "colorPicker.layout")) = 1
                           /\ Len(CallsOf(t.calls, w, "layoutContentWidget")) = 1)
    /\ [][\A w \in Ids :
            (computer[w].st = "pending" /\ computer'[w].st = "pending") =>
                /\ widget'[w].renders = widget[w].renders
                /\ widget'[w].picker = widget[w].picker
                /\ widget'[w].colorHoverData = widget[w].colorHoverData
         ]_vars
    /\ \A w \in Ids :
           Waiting(w) ~>
               \/ widget[w].picker
               \/ Hidden(w)
               \/ /\ computer[w].st = "done"
                  /\ \/ computer[w].answer = Null
                     \/ widget[w].renders = 1 /\ ~widget[w].picker

\* The lookup of a live widget resolved with a color hover, the participant
\* set a picker, and the widget was rendered: picker laid out and the
\* content widget laid out again.
C19_Witness ==
    /\ lastOp.op = "resolve"
    /\ Live(lastOp.w) /\ visible
    /\ computer[lastOp.w].st = "done" /\ computer[lastOp.w].answer # Null
    /\ widget[lastOp.w].picker /\ widget[lastOp.w].renders = 1
    /\ Len(CallsOf(calls, lastOp.w, "colorPicker.layout")) = 1
    /\ Len(CallsOf(calls, lastOp.w, "layoutContentWidget")) = 1

\* C20: after every completed handler, visible = false implies that no
\* widget is attached to the editor: each path that clears visible also
\* detaches the controller's widget.
C20_NotVisibleNothingAttached ==
    ~visible => attached = {}

\* The close button hid a widget that was attached and visible: the flag is
\* cleared and nothing is attached.
C20_Witness ==
    /\ lastOp.op = "clickClose"
    /\ Hides(calls, lastOp.w) = 1
    /\ lastOp.w = widgetRef
    /\ widget[lastOp.w].picker
    /\ ~visible
    /\ attached = {}

====
